---- MODULE Spec2Model ----
(***************************************************************************)
(* Model of the polynomial root search of the roots crate                  *)
(* (src/src/numerical/polynom.rs): the Horner evaluators value and         *)
(* value_and_derivative, the bracketed Newton-Raphson/bisection loop       *)
(* find_root, and the degree dispatcher find_roots_sturm.                  *)
(*                                                                         *)
(* The numeric type F: FloatType is modelled by binary fixed-point numbers *)
(* with FracBits fractional bits and round-to-nearest-even multiplication  *)
(* and division.  The exponent range, infinities and NaN of f32/f64 are    *)
(* outside the model.                                                      *)
(***************************************************************************)
EXTENDS Integers, Sequences, FiniteSets, TLC

VARIABLES
    a,            \* &self: the coefficient sequence a[0..n-1] (1-based here)
    interval,     \* find_root: the caller's Interval, mutated in place
    start,        \* find_root: the Interval as it was at entry
    policy,       \* find_root: the Convergency policy of the call
    iter,         \* find_root: the local iteration counter
    pc,           \* find_root: "entry", "loop" or "done"
    result,       \* find_root: the Result returned
    evals,        \* find_root: calls of value / value_and_derivative so far
    queries,      \* find_root: calls of the policy's three functions so far
    limitCounts,  \* find_root: the counts handed to is_iteration_limit_reached
    px,           \* evaluator: the point x
    valueOut,     \* evaluator: what value(x) returned
    vadOut,       \* evaluator: what value_and_derivative(x) returned
    sturmOut      \* dispatcher: what find_roots_sturm returned

vars == <<a, interval, start, policy, iter, pc, result, evals, queries,
          limitCounts, px, valueOut, vadOut, sturmOut>>

(***************************************************************************)
(* Bounds of the model.                                                    *)
(***************************************************************************)
\* FloatType: fractional bits of a number
FracBits == 6
\* find_root: longest coefficient sequence
MaxLen == 2
\* find_root and evaluator: coefficients are the integers -MaxCoef..MaxCoef
MaxCoef == 2
\* find_root: the endpoints' x are the integers -MaxX..MaxX
MaxX == 2
\* find_root: the policy's tolerances are the integers 0..MaxTol
MaxTol == 2
\* find_root: the policy reports its limit at counts within 1..MaxIter
MaxIter == 2
\* evaluator: longest coefficient sequence
EvalMaxLen == 3
\* evaluator: the points are the integers -MaxPt..MaxPt
MaxPt == 3
\* dispatcher: longest coefficient sequence
SturmMaxLen == 5
\* dispatcher: coefficients are the integers -SturmMaxCoef..SturmMaxCoef
SturmMaxCoef == 1

(***************************************************************************)
(* FloatType: binary fixed-point arithmetic.  A number is the integer n    *)
(* standing for n / Scale; + and - are exact, * and / round to the nearest *)
(* representable number, ties to even.                                     *)
(***************************************************************************)
Scale == 2 ^ FracBits

IAbs(n) == IF n < 0 THEN -n ELSE n

\* num / den rounded to the nearest integer, ties to even (den > 0)
RoundDiv(num, den) ==
    LET q == num \div den
        r == num % den
    IN  IF 2 * r < den THEN q
        ELSE IF 2 * r > den THEN q + 1
        ELSE IF q % 2 = 0 THEN q ELSE q + 1

FromInt(i) == i * Scale
zero == FromInt(0)
one == FromInt(1)
two == FromInt(2)

Add(p, q) == p + q
Sub(p, q) == p - q
Mul(p, q) == RoundDiv(p * q, Scale)
Div(p, q) == IF q < 0 THEN RoundDiv(-(p * Scale), -q) ELSE RoundDiv(p * Scale, q)
Lt(p, q) == p < q
Le(p, q) == p <= q
abs(p) == IAbs(p)

(***************************************************************************)
(* Sample, Interval and the Convergency policy (numerical module).         *)
(***************************************************************************)
Sample(x, y) == [x |-> x, y |-> y]

Sign(p) == IF p > 0 THEN 1 ELSE IF p < 0 THEN -1 ELSE 0

\* Sample::is_bracketed_with: opposite signs, or one of the two is a root
is_bracketed_with(s, t) == Sign(s.y) # Sign(t.y) \/ Sign(s.y) = 0

\* Interval::is_bracketed
is_bracketed(iv) == is_bracketed_with(iv.begin, iv.end)

\* Interval::middle: the arithmetic mean of begin.x and end.x
middle(iv) == Div(Add(iv.begin.x, iv.end.x), two)

\* Convergency::is_root_found of a tolerance policy
is_root_found(pol, y) == Lt(abs(y), pol.rootTol)

\* Convergency::is_converged of a tolerance policy
is_converged(pol, x1, x2) == Lt(abs(Sub(x1, x2)), pol.convTol)

\* Interval::is_converged
interval_is_converged(iv, pol) == is_converged(pol, iv.begin.x, iv.end.x)

\* Convergency::is_iteration_limit_reached: the counts the policy stops at
is_iteration_limit_reached(pol, count) == count \in pol.limitAt

(***************************************************************************)
(* Polynom for [F]: value and value_and_derivative.                        *)
(***************************************************************************)
\* the body of value's loop, for the coefficients a[i], a[i-1], ..., a[1]
RECURSIVE value_loop(_, _, _, _)
value_loop(c, x, i, st) ==
    IF i = 0 THEN st
    ELSE value_loop(c, x, i - 1,
                    [result |-> Add(st.result, Mul(c[i], st.xn)),
                     xn |-> Mul(st.xn, x)])

value_without_leading(c, x) ==
    value_loop(c, x, Len(c), [result |-> zero, xn |-> one]).result
value(c, x) ==
    LET st == value_loop(c, x, Len(c), [result |-> zero, xn |-> one])
    IN  Add(st.result, st.xn)

\* the body of value_and_derivative's loop
RECURSIVE vad_loop(_, _, _, _)
vad_loop(c, x, i, st) ==
    IF i = 0 THEN st
    ELSE vad_loop(c, x, i - 1,
                  [value |-> Add(st.value, Mul(c[i], st.xn)),
                   derivative |-> Add(st.derivative, Mul(Mul(c[i], st.n), st.xn1)),
                   xn1 |-> st.xn,
                   xn |-> Mul(st.xn, x),
                   n |-> Add(st.n, one)])

value_and_derivative_lagged(c, x) ==
    LET st == vad_loop(c, x, Len(c),
                       [value |-> zero, derivative |-> zero,
                        xn1 |-> zero, xn |-> one, n |-> zero])
    IN  [value |-> Sample(x, Add(st.value, st.xn1)),
         derivative |-> Add(st.derivative, Mul(st.n, st.xn1))]
value_and_derivative_no_leading(c, x) ==
    LET st == vad_loop(c, x, Len(c),
                       [value |-> zero, derivative |-> zero,
                        xn1 |-> zero, xn |-> one, n |-> zero])
    IN  [value |-> Sample(x, Add(st.value, st.xn)),
         derivative |-> st.derivative]
value_and_derivative(c, x) ==
    LET st == vad_loop(c, x, Len(c),
                       [value |-> zero, derivative |-> zero,
                        xn1 |-> zero, xn |-> one, n |-> zero])
    IN  [value |-> Sample(x, Add(st.value, st.xn)),
         derivative |-> Add(st.derivative, Mul(st.n, st.xn1))]

(***************************************************************************)
(* Polynom for [F]: find_root.                                             *)
(***************************************************************************)
NoResult == [tag |-> "None", x |-> zero, err |-> ""]
Ok(x) == [tag |-> "Ok", x |-> x, err |-> ""]
Err(e) == [tag |-> "Err", x |-> zero, err |-> e]
Continue == [tag |-> "Continue", x |-> zero, err |-> ""]

\* the check at entry
entry_ok_always(iv) == TRUE
entry_ok(iv) == is_bracketed(iv)

\* the three exits at the top of the loop body, in the order of the code
loop_exit_end_first(iv, pol) ==
    IF is_root_found(pol, iv.end.y) THEN Ok(iv.end.x)
    ELSE IF is_root_found(pol, iv.begin.y) THEN Ok(iv.begin.x)
    ELSE IF interval_is_converged(iv, pol) THEN Ok(middle(iv))
    ELSE Continue
loop_exit(iv, pol) ==
    IF is_root_found(pol, iv.begin.y) THEN Ok(iv.begin.x)
    ELSE IF is_root_found(pol, iv.end.y) THEN Ok(iv.end.x)
    ELSE IF interval_is_converged(iv, pol) THEN Ok(middle(iv))
    ELSE Continue

\* the policy calls the three exits make: the if/else-if chain stops at the
\* first that answers true
exit_queries(iv, pol) ==
    IF is_root_found(pol, iv.begin.y) THEN 1
    ELSE IF is_root_found(pol, iv.end.y) THEN 2
    ELSE 3

\* the Newton-Raphson point of the middle sample
newton_raphson(mid) == Sub(mid.value.x, Div(mid.value.y, mid.derivative))

\* whether the Newton-Raphson point is computed and lies within the interval
newton_in_range_unchecked(mid, iv) == mid.derivative # zero
newton_in_range(mid, iv) ==
    /\ mid.derivative # zero
    /\ Le(iv.begin.x, newton_raphson(mid))
    /\ Le(newton_raphson(mid), iv.end.x)

\* the trial sample of an iteration
next_sample_unimproved(c, iv) ==
    LET mid == value_and_derivative(c, middle(iv))
    IN  IF newton_in_range(mid, iv)
        THEN Sample(newton_raphson(mid), value(c, newton_raphson(mid)))
        ELSE mid.value
next_sample(c, iv) ==
    LET mid == value_and_derivative(c, middle(iv))
    IN  IF newton_in_range(mid, iv)
        THEN LET nr == newton_raphson(mid)
                 nrv == value(c, nr)
             IN  IF Lt(abs(nrv), abs(mid.value.y))
                 THEN Sample(nr, nrv)
                 ELSE mid.value
        ELSE mid.value

\* the evaluator calls of an iteration: value_and_derivative at the middle,
\* and value at the Newton-Raphson point when it is within the interval
sample_evals(c, iv) ==
    IF newton_in_range(value_and_derivative(c, middle(iv)), iv) THEN 2 ELSE 1

\* the endpoint replacement
replace_endpoint_swapped(iv, s) ==
    IF is_bracketed_with(iv.begin, s)
    THEN [iv EXCEPT !.begin = s]
    ELSE [iv EXCEPT !.end = s]
replace_endpoint(iv, s) ==
    IF is_bracketed_with(iv.begin, s)
    THEN [iv EXCEPT !.end = s]
    ELSE [iv EXCEPT !.begin = s]

\* iter = iter + 1
next_iter_by_two(i) == i + 2
next_iter(i) == i + 1

\* find_root up to the loop: the bracketing check and let mut iter = 0
Enter ==
    /\ pc = "entry"
    /\ IF entry_ok(interval)
       THEN /\ pc' = "loop"
            /\ iter' = 0
            /\ UNCHANGED result
       ELSE /\ pc' = "done"
            /\ result' = Err("NoBracketing")
            /\ UNCHANGED iter
    /\ UNCHANGED <<a, interval, start, policy, evals, queries, limitCounts,
                   px, valueOut, vadOut, sturmOut>>

\* one pass through the loop body (the guard on iter caps the counter of a
\* search that would run past every count the policy stops at)
Iterate ==
    /\ pc = "loop"
    /\ iter < MaxIter + 2
    /\ LET exit == loop_exit(interval, policy)
       IN  IF exit.tag = "Ok"
           THEN /\ pc' = "done"
                /\ result' = exit
                /\ queries' = queries + exit_queries(interval, policy)
                /\ UNCHANGED <<interval, iter, evals, limitCounts>>
           ELSE /\ interval' = replace_endpoint(interval, next_sample(a, interval))
                /\ evals' = evals + sample_evals(a, interval)
                /\ iter' = next_iter(iter)
                /\ queries' = queries + 4
                /\ limitCounts' = Append(limitCounts, iter')
                /\ IF is_iteration_limit_reached(policy, iter')
                   THEN /\ pc' = "done"
                        /\ result' = Err("NoConvergency")
                   ELSE /\ pc' = "loop"
                        /\ UNCHANGED result
    /\ UNCHANGED <<a, start, policy, px, valueOut, vadOut, sturmOut>>

(***************************************************************************)
(* find_roots_sturm and the closed-form solvers it delegates to.  A solver *)
(* is external to the dispatcher: its result is kept as the application    *)
(* of the solver to its arguments.                                         *)
(***************************************************************************)
Roots(solver, args) == [solver |-> solver, args |-> args]
RootsNo == Roots("No", <<>>)
find_roots_linear(a1, a0) == Roots("linear", <<a1, a0>>)
find_roots_quadratic(a2, a1, a0) == Roots("quadratic", <<a2, a1, a0>>)
find_roots_cubic(a3, a2, a1, a0) == Roots("cubic", <<a3, a2, a1, a0>>)
find_roots_quartic(a4, a3, a2, a1, a0) == Roots("quartic", <<a4, a3, a2, a1, a0>>)

Some(v) == [tag |-> "Some", roots |-> v]
None == [tag |-> "None", roots |-> Roots("", <<>>)]

find_roots_sturm_empty_above_four(c) ==
    CASE Len(c) = 0 -> Some(RootsNo)
      [] Len(c) = 1 -> Some(find_roots_linear(one, c[1]))
      [] Len(c) = 2 -> Some(find_roots_quadratic(one, c[1], c[2]))
      [] Len(c) = 3 -> Some(find_roots_cubic(one, c[1], c[2], c[3]))
      [] Len(c) = 4 -> Some(find_roots_quartic(one, c[1], c[2], c[3], c[4]))
      [] OTHER -> Some(RootsNo)
find_roots_sturm(c) ==
    CASE Len(c) = 0 -> Some(RootsNo)
      [] Len(c) = 1 -> Some(find_roots_linear(one, c[1]))
      [] Len(c) = 2 -> Some(find_roots_quadratic(one, c[1], c[2]))
      [] Len(c) = 3 -> Some(find_roots_cubic(one, c[1], c[2], c[3]))
      [] Len(c) = 4 -> Some(find_roots_quartic(one, c[1], c[2], c[3], c[4]))
      [] OTHER -> None

(***************************************************************************)
(* The calls.                                                              *)
(***************************************************************************)
\* the integers -m..m as numbers
Ints(m) == {FromInt(i) : i \in -m..m}

\* the coefficient sequences of length at most len over the set S
Polys(S, len) == UNION {[1..n -> S] : n \in 0..len}

\* the tolerance policies of the model
Policies ==
    [rootTol : {FromInt(k) : k \in 0..MaxTol},
     convTol : {FromInt(k) : k \in 0..MaxTol},
     limitAt : SUBSET (1..MaxIter) \ {{}}]

NotCalled == [set |-> FALSE, v |-> zero]
Returned(v) == [set |-> TRUE, v |-> v]

\* a call of find_root on an interval whose samples are samples of the polynom
Init ==
    /\ a \in Polys(Ints(MaxCoef), MaxLen)
    /\ \E bx, ex \in Ints(MaxX) :
          interval = [begin |-> Sample(bx, value(a, bx)),
                      end |-> Sample(ex, value(a, ex))]
    /\ start = interval
    /\ policy \in Policies
    /\ iter = 0
    /\ pc = "entry"
    /\ result = NoResult
    /\ evals = 0
    /\ queries = 0
    /\ limitCounts = <<>>
    /\ px = zero
    /\ valueOut = NotCalled
    /\ vadOut = NotCalled
    /\ sturmOut = NotCalled

Next == Enter \/ Iterate

Spec == Init /\ [][Next]_vars

\* no find_root call is in progress
NoSearch ==
    /\ interval = [begin |-> Sample(zero, zero), end |-> Sample(zero, zero)]
    /\ start = interval
    /\ policy = [rootTol |-> zero, convTol |-> zero, limitAt |-> {1}]
    /\ iter = 0
    /\ pc = "idle"
    /\ result = NoResult
    /\ evals = 0
    /\ queries = 0
    /\ limitCounts = <<>>

\* polynom.value(&x)
CallValue ==
    /\ pc = "idle"
    /\ ~valueOut.set
    /\ valueOut' = Returned(value(a, px))
    /\ UNCHANGED <<a, interval, start, policy, iter, pc, result, evals, queries,
                   limitCounts, px, vadOut, sturmOut>>

\* polynom.value_and_derivative(&x)
CallValueAndDerivative ==
    /\ pc = "idle"
    /\ ~vadOut.set
    /\ vadOut' = Returned(value_and_derivative(a, px))
    /\ UNCHANGED <<a, interval, start, policy, iter, pc, result, evals, queries,
                   limitCounts, px, valueOut, sturmOut>>

\* the evaluators on a coefficient sequence and a point
InitEval ==
    /\ a \in Polys(Ints(MaxCoef), EvalMaxLen)
    /\ px \in Ints(MaxPt)
    /\ NoSearch
    /\ valueOut = NotCalled
    /\ vadOut = NotCalled
    /\ sturmOut = NotCalled

NextEval == CallValue \/ CallValueAndDerivative

SpecEval == InitEval /\ [][NextEval]_vars

\* find_roots_sturm(a)
CallSturm ==
    /\ pc = "idle"
    /\ ~sturmOut.set
    /\ sturmOut' = Returned(find_roots_sturm(a))
    /\ UNCHANGED <<a, interval, start, policy, iter, pc, result, evals, queries,
                   limitCounts, px, valueOut, vadOut>>

\* the dispatcher on a coefficient sequence
InitSturm ==
    /\ a \in Polys(Ints(SturmMaxCoef), SturmMaxLen)
    /\ px = zero
    /\ NoSearch
    /\ valueOut = NotCalled
    /\ vadOut = NotCalled
    /\ sturmOut = NotCalled

NextSturm == CallSturm

SpecSturm == InitSturm /\ [][NextSturm]_vars

(***************************************************************************)
(* Properties of find_root (specification Spec).                           *)
(***************************************************************************)
\* both y-values are strictly positive or both strictly negative
SameSignNoRoot(iv) ==
    \/ Lt(zero, iv.begin.y) /\ Lt(zero, iv.end.y)
    \/ Lt(iv.begin.y, zero) /\ Lt(iv.end.y, zero)

\* C1: find_root returns Err(NoBracketing) exactly when the interval passed
\* in has endpoint y-values of the same sign, neither a root; and then the
\* policy was never queried, the polynom never evaluated, and the interval
\* is as it was passed in.
C1_NoBracketingIffNotBracketed ==
    pc = "done" =>
        /\ (result = Err("NoBracketing")) <=> SameSignNoRoot(start)
        /\ result = Err("NoBracketing") =>
               /\ queries = 0
               /\ evals = 0
               /\ limitCounts = <<>>
               /\ interval = start

C1_Witness ==
    /\ pc = "done"
    /\ result = Err("NoBracketing")
    /\ SameSignNoRoot(start)

\* C2: for every count N at which the policy reports its limit, the search
\* has completed at most N iterations, and fewer than N while it is still
\* looping (so it returns within N passes of the loop); the counter starts
\* at 0 and the policy is handed 1, 2, 3, ..., once per completed iteration.
C2_BoundedByIterationLimit ==
    /\ \A N \in 1..MaxIter :
          is_iteration_limit_reached(policy, N) =>
              /\ iter <= N
              /\ pc = "loop" => iter < N
    /\ pc = "entry" => iter = 0
    /\ Len(limitCounts) = iter
    /\ \A k \in 1..iter : limitCounts[k] = k

C2_Witness ==
    /\ pc = "done"
    /\ result = Err("NoConvergency")
    /\ iter = 2
    /\ limitCounts = <<1, 2>>

\* end.x - begin.x
width(iv) == Sub(iv.end.x, iv.begin.x)

\* the calls most favourable to C3 and C4: begin.x < end.x at entry, and a
\* policy whose two tolerances are positive
OrderedCallWithTolerances ==
    /\ Lt(start.begin.x, start.end.x)
    /\ Lt(zero, policy.rootTol)
    /\ Lt(zero, policy.convTol)

\* C3: every iteration that does not return leaves the interval strictly
\* narrower than it found it (stated for the calls most favourable to it).
C3_EveryIterationNarrows ==
    [][(pc = "loop" /\ pc' = "loop" /\ OrderedCallWithTolerances)
       => Lt(width(interval'), width(interval))]_vars

\* C4: when find_root returns Err(NoConvergency), neither endpoint of the
\* interval is root-found and the interval is not converged (stated for the
\* calls most favourable to it).
C4_NoConvergencyMeansNothingFound ==
    (pc = "done" /\ result = Err("NoConvergency") /\ OrderedCallWithTolerances) =>
        /\ ~is_root_found(policy, interval.begin.y)
        /\ ~is_root_found(policy, interval.end.y)
        /\ ~interval_is_converged(interval, policy)

\* the y-values have opposite signs, or one of them is zero
OppositeSignsOrRoot(iv) ==
    \/ Lt(iv.begin.y, zero) /\ Lt(zero, iv.end.y)
    \/ Lt(zero, iv.begin.y) /\ Lt(iv.end.y, zero)
    \/ iv.begin.y = zero
    \/ iv.end.y = zero

\* C5: an interval bracketed at entry is bracketed after every endpoint
\* replacement.
C5_BracketingPreserved ==
    OppositeSignsOrRoot(start) => OppositeSignsOrRoot(interval)

C5_Witness ==
    /\ iter >= 2
    /\ interval.begin # start.begin
    /\ interval.end # start.end
    /\ OppositeSignsOrRoot(interval)

\* C6: a pass of the loop returns Ok exactly when begin.y is root-found, or
\* else end.y is root-found, or else the interval is converged, with
\* begin.x, end.x or the midpoint respectively; it does so without
\* evaluating the polynom and without touching the interval.
C6_ExitsInOrder ==
    [][pc = "loop" =>
        LET beginFound == is_root_found(policy, interval.begin.y)
            endFound == is_root_found(policy, interval.end.y)
            converged == interval_is_converged(interval, policy)
        IN  /\ beginFound => result' = Ok(interval.begin.x)
            /\ (~beginFound /\ endFound) => result' = Ok(interval.end.x)
            /\ (~beginFound /\ ~endFound /\ converged) =>
                   result' = Ok(Div(Add(interval.begin.x, interval.end.x), two))
            /\ (beginFound \/ endFound \/ converged) =>
                   /\ pc' = "done"
                   /\ interval' = interval
                   /\ evals' = evals
                   /\ iter = 0 => evals' = 0
            /\ ~(beginFound \/ endFound \/ converged) => result'.tag # "Ok"]_vars

C6_Witness ==
    /\ pc = "done"
    /\ iter = 0
    /\ evals = 0
    /\ ~is_root_found(policy, interval.begin.y)
    /\ ~is_root_found(policy, interval.end.y)
    /\ interval_is_converged(interval, policy)
    /\ interval.begin.x # interval.end.x
    /\ result = Ok(middle(interval))

(***************************************************************************)
(* Properties of the evaluators (specification SpecEval).                  *)
(***************************************************************************)
\* the integer a number of the model's inputs stands for
IntOf(p) == p \div Scale

RECURSIVE IntPow(_, _)
IntPow(x, k) == IF k = 0 THEN 1 ELSE x * IntPow(x, k - 1)

RECURSIVE IntSum(_, _, _)
\* term[lo] + ... + term[hi]
IntSum(term, lo, hi) == IF lo > hi THEN 0 ELSE term[lo] + IntSum(term, lo + 1, hi)

\* x^n + a[0]x^(n-1) + ... + a[n-1], with a[i] written c[i + 1]
PolynomialAt(c, x) ==
    LET n == Len(c)
    IN  IntPow(x, n)
        + IntSum([i \in 1..n |-> IntOf(c[i]) * IntPow(x, n - i)], 1, n)

\* n x^(n-1) + the sum of (n-1-i) a[i] x^(n-2-i) over the i with n-1-i > 0
DerivativeAt(c, x) ==
    LET n == Len(c)
    IN  (IF n = 0 THEN 0 ELSE n * IntPow(x, n - 1))
        + IntSum([i \in 1..(n - 1) |-> (n - i) * IntOf(c[i]) * IntPow(x, n - i - 1)],
                 1, n - 1)

\* C7: value_and_derivative(x).value is the Sample of x and value(x).
C7_ValueRoundTrip ==
    (valueOut.set /\ vadOut.set) => vadOut.v.value = Sample(px, valueOut.v)

C7_Witness ==
    /\ valueOut.set
    /\ vadOut.set
    /\ Len(a) = 3
    /\ px # zero
    /\ vadOut.v.value = Sample(px, valueOut.v)

\* C8: value_and_derivative(x).derivative is the derivative at x of
\* x^n + a[0]x^(n-1) + ... + a[n-1]; for [1,-2,1] that is -2, 3, -1 at
\* x = 0, 1, -1, and for the empty sequence 0.
C8_DerivativeCorrect ==
    vadOut.set =>
        /\ vadOut.v.derivative = FromInt(DerivativeAt(a, IntOf(px)))
        /\ a = <<FromInt(1), FromInt(-2), FromInt(1)>> =>
               /\ px = FromInt(0) => vadOut.v.derivative = FromInt(-2)
               /\ px = FromInt(1) => vadOut.v.derivative = FromInt(3)
               /\ px = FromInt(-1) => vadOut.v.derivative = FromInt(-1)
        /\ a = <<>> => vadOut.v.derivative = zero

C8_Witness ==
    /\ vadOut.set
    /\ a = <<FromInt(1), FromInt(-2), FromInt(1)>>
    /\ px = FromInt(-1)
    /\ vadOut.v = [value |-> Sample(FromInt(-1), FromInt(3)), derivative |-> FromInt(-1)]

\* C9: value(x) is x^n + a[0]x^(n-1) + ... + a[n-1]; the empty sequence
\* gives 1 at every x, and [1,-2,1] gives 1, 1, 3 at x = 0, 1, -1.
C9_ValueCorrect ==
    valueOut.set =>
        /\ valueOut.v = FromInt(PolynomialAt(a, IntOf(px)))
        /\ a = <<>> => valueOut.v = one
        /\ a = <<FromInt(1), FromInt(-2), FromInt(1)>> =>
               /\ px = FromInt(0) => valueOut.v = FromInt(1)
               /\ px = FromInt(1) => valueOut.v = FromInt(1)
               /\ px = FromInt(-1) => valueOut.v = FromInt(3)

C9_Witness ==
    /\ valueOut.set
    /\ a = <<FromInt(1), FromInt(-2), FromInt(1)>>
    /\ px = FromInt(-1)
    /\ valueOut.v = FromInt(3)

NewtonX(mx, my, d) == Sub(mx, Div(my, d))

\* f'(mid) # 0, begin.x <= x' <= end.x and |f(x')| < |f(mid)|
NewtonAccepted(c, iv) ==
    LET mx == Div(Add(iv.begin.x, iv.end.x), two)
        my == value(c, mx)
        d == value_and_derivative(c, mx).derivative
    IN  /\ d # zero
        /\ Le(iv.begin.x, NewtonX(mx, my, d))
        /\ Le(NewtonX(mx, my, d), iv.end.x)
        /\ Lt(abs(value(c, NewtonX(mx, my, d))), abs(my))

\* the sample the claim expects an iteration to try: the Newton-Raphson
\* sample when it is accepted, the midpoint sample in every other case
ExpectedTrial(c, iv) ==
    LET mx == Div(Add(iv.begin.x, iv.end.x), two)
        my == value(c, mx)
        d == value_and_derivative(c, mx).derivative
    IN  IF NewtonAccepted(c, iv)
        THEN Sample(NewtonX(mx, my, d), value(c, NewtonX(mx, my, d)))
        ELSE Sample(mx, my)

\* iv with one endpoint replaced by the sample s, the other left as it is
OneEndpointReplaced(iv, new, s) ==
    \/ new = [begin |-> iv.begin, end |-> s]
    \/ new = [begin |-> s, end |-> iv.end]

\* C11: the sample an iteration puts in place of an endpoint is the
\* Newton-Raphson sample exactly when f'(mid) # 0, begin.x <= x' <= end.x
\* and |f(x')| < |f(mid)|; in every other case it is the midpoint sample.
C11_NewtonOnlyWhenSafeAndBetter ==
    [][(pc = "loop" /\ iter' # iter) =>
        LET trial == ExpectedTrial(a, interval)
        IN  OneEndpointReplaced(interval, interval', trial)]_vars

\* one iteration done, and it tried the Newton-Raphson sample
C11_Witness ==
    /\ iter = 1
    /\ NewtonAccepted(a, start)
    /\ ExpectedTrial(a, start).x # middle(start)
    /\ OneEndpointReplaced(start, interval, ExpectedTrial(a, start))
    /\ interval # start

\* C12: for an interval bracketed at entry with begin.x <= end.x, at every
\* point of the search start.begin.x <= begin.x <= end.x <= start.end.x;
\* an iteration replaces one endpoint and leaves the other as it is; and
\* every Ok(x) returned has start.begin.x <= x <= start.end.x.
C12_BracketNeverWidened ==
    [][(OppositeSignsOrRoot(start) /\ Le(start.begin.x, start.end.x)) =>
        /\ Le(start.begin.x, interval'.begin.x)
        /\ Le(interval'.begin.x, interval'.end.x)
        /\ Le(interval'.end.x, start.end.x)
        /\ (pc = "loop" /\ iter' # iter) =>
               \/ interval'.begin = interval.begin /\ interval'.end # interval.end
               \/ interval'.end = interval.end /\ interval'.begin # interval.begin
               \/ interval' = interval
        /\ result'.tag = "Ok" =>
               /\ Le(start.begin.x, result'.x)
               /\ Le(result'.x, start.end.x)]_vars

\* an endpoint has moved inwards and the search returned a root within the
\* narrowed bracket
C12_Witness ==
    /\ pc = "done"
    /\ result.tag = "Ok"
    /\ iter >= 1
    /\ OppositeSignsOrRoot(start)
    /\ Lt(start.begin.x, start.end.x)
    /\ Lt(width(interval), width(start))
    /\ Lt(start.begin.x, result.x)
    /\ Lt(result.x, start.end.x)

====
